---- MODULE Spec2Model ----
(***************************************************************************)
(* Model of the Orchestrator of fiqbuddy/ImageProcessor                    *)
(* (src/services/orchestrator_service.py).                                 *)
(*                                                                         *)
(* The orchestrator is one OrchestratorService instance registered on a    *)
(* SimpleXMLRPCServer.  Clients connect concurrently; the server handles   *)
(* one connection at a time (serve_forever of a plain TCPServer).  Each    *)
(* process_image call walks the stages Resize -> Filter(s) -> Watermark -> *)
(* Format, selecting a host round-robin before every collaborator call.    *)
(*                                                                         *)
(* Images are byte sequences; they are modelled as sequences of tokens: an *)
(* original image is a short sequence and every collaborator appends the   *)
(* token of the transformation it applied.                                 *)
(***************************************************************************)
EXTENDS Integers, Sequences, FiniteSets, TLC

\* ---------------------------------------------------------------- bounds
MaxRequests == 2    \* process_image requests submitted in one behaviour
MaxPool     == 2    \* largest configured host list of a stage
MaxFilters  == 2    \* longest options['filters'] list
TicksPerMs  == 2    \* resolution of the clocks: ticks in one millisecond
MaxElapsed  == 3    \* longest collaborator call of the timing analysis, in ticks

\* ------------------------------------------------------ program constants
DefaultQuality   == 90     \* orchestrator_service.py:190-192
FontSize         == 30     \* orchestrator_service.py:167
FormatFallbackQuality == 85    \* format_service.py:54

\* ------------------------------------------------------------ input sets
Clients     == {1, 2}    \* connections that may be open at the same time
Stages      == <<"resize", "filter", "watermark", "format">>
StageSet    == {Stages[k] : k \in 1..Len(Stages)}
FilterKinds == {"GRAYSCALE", "BLUR"}
Dims        == {0, 50}
Qualities   == {-5, 0, 75, 150}
Originals   == {<<"a", "b">>}
\* what a collaborator call takes: <<elapsed, measured>> in clock ticks.
\* elapsed is what passes on the orchestrator's clock around the proxy call,
\* measured the part of it between the collaborator's two time.time() calls.
Latencies   == {<<4 * TicksPerMs, 4 * TicksPerMs>>}
TimingLatencies ==
    {<<elapsed, measured>> : elapsed \in 1..MaxElapsed, measured \in 0..MaxElapsed}
    \ {l \in (1..MaxElapsed) \X (0..MaxElapsed) : l[2] > l[1]}
Messages    == {"cannot identify image file"}
\* what a proxy call raises: no connection, or a reply without 'success'
Faults      == {"Connection refused", "'success'"}
\* image_data that is not bytes: None (allow_none=True) or a str
MalformedImages == {"None", "str"}
\* ids a client asks the status of: issued ones and ones never issued
StatusIds   == {1, MaxRequests + 1}

RECURSIVE SeqsUpTo(_, _)
SeqsUpTo(S, n) ==
    IF n = 0 THEN {<<>>}
    ELSE LET shorter == SeqsUpTo(S, n - 1)
         IN  shorter \cup {Append(q, x) : q \in {t \in shorter : Len(t) = n - 1}, x \in S}

NegativeDims == {-1}
\* dicts with one key only: the other stages see their key missing
\* watermark_position as a client may send it: a place, or an empty string
Positions == {"", "center"}
PartialOptions ==
    {[filters |-> <<"BLUR">>]}
    \cup [add_watermark : {TRUE}, watermark_position : Positions]

\* options is a dict: every key may be missing (options.get(key, default))
NoOptions == [k \in {} |-> 0]
\* options = None: no dict at all, and no .get
NoneOptions == [none |-> TRUE]
NoneGetError == "'NoneType' object has no attribute 'get'"
\* the requests clients send: resize by width and watermark on or off, every
\* filter list behind a resize and before a watermark, every quality on the
\* all-skipped pipeline, every pair of dimensions (positive, zero, negative)
\* with nothing else enabled, dicts with keys missing, and the empty dict
OptionSets ==
    [target_width : Dims, target_height : {0},
     filters : {<<>>},
     add_watermark : BOOLEAN,
     output_quality : {75}]
    \cup [target_width : {50}, target_height : {0},
          filters : SeqsUpTo(FilterKinds, MaxFilters),
          add_watermark : {TRUE},
          output_quality : {75}]
    \cup [target_width : {0}, target_height : {0},
          filters : {<<>>},
          add_watermark : {FALSE},
          output_quality : Qualities]
    \cup [target_width : Dims \cup NegativeDims,
          target_height : Dims \cup NegativeDims,
          filters : {<<>>},
          add_watermark : {FALSE},
          output_quality : {75}]
    \cup PartialOptions
    \cup {NoOptions}

VARIABLES
    hosts,      \* service_type -> list of host addresses (self.*_hosts)
    idx,        \* service_type -> round-robin counter (self.*_idx)
    task,       \* client -> the frame of its process_image call (picks: the
                \* hosts _get_next_host returned to this call, in order)
    calls,      \* client -> collaborator calls of its current request
    selLog,     \* service_type -> hosts returned by _get_next_host, in order
    issued,     \* process ids generated so far (uuid4: each one is fresh)
    latency     \* the <<elapsed, measured>> pairs calls take in this deployment

vars == <<hosts, idx, task, calls, selLog, issued, latency>>

\* ------------------------------------------------------------- helpers
NoHost  == "none"
\* the host '' that an empty *_SERVICE_HOSTS string is parsed to
EmptyHost == <<>>
NoStats == [k \in {} |-> 0]

\* OrchestratorService.__init__: a comma-separated list with n entries
HostList(service_type, n) == [k \in 1..n |-> <<service_type, k>>]

InitStats(image) ==
    [original_size_bytes |-> Len(image),
     resize_time_ms      |-> 0,
     filter_time_ms      |-> 0,
     watermark_time_ms   |-> 0,
     format_time_ms      |-> 0,
     host_map            |-> NoStats]

IdleTask ==
    [pc |-> "idle", process_id |-> 0, image_data |-> <<>>,
     options |-> NoOptions,
     current_image |-> <<>>, stats |-> NoStats, service_type |-> "none",
     host |-> NoHost, picks |-> <<>>, i |-> 0, clock |-> 0, filter_start |-> 0,
     response |-> NoStats]

Active(c) == task[c].pc \notin {"idle", "pending"}

\* __init__ does not look at what it parsed: ''.split(',') is [''], a pool
\* of one host with no address.  serve() passes the environment's strings on.
Configured ==
    /\ \/ \E n \in 1..MaxPool :
             hosts = [s \in StageSet |->
                        IF s \in {"filter", "format"}
                        THEN HostList(s, n) ELSE HostList(s, MaxPool + 1 - n)]
       \/ hosts = [s \in StageSet |->
                     IF s = "resize" THEN <<EmptyHost>> ELSE HostList(s, 1)]
    /\ idx = [s \in StageSet |-> 0]
    /\ task = [c \in Clients |-> IdleTask]
    /\ calls = [c \in Clients |-> <<>>]
    /\ selLog = [s \in StageSet |-> <<>>]

Init ==
    /\ Configured
    /\ issued = 0
    /\ latency = Latencies

\* the last request of a behaviour, the ones before it having been answered
\* without a call (their cursors did not move), with every latency
InitTiming ==
    /\ Configured
    /\ issued = MaxRequests - 1
    /\ latency = TimingLatencies

\* mutant: a duration is rounded up to whole milliseconds
Ms_roundup(ticks) == (ticks + TicksPerMs - 1) \div TicksPerMs

\* int(seconds * 1000): a duration in ticks, truncated to whole milliseconds
Ms(ticks) == ticks \div TicksPerMs

\* dict.get(key, default)
Get(d, key, default) == IF key \in DOMAIN d THEN d[key] ELSE default

\* d[key] = value on a dict: an existing key is overwritten
Put(d, key, value) ==
    [k \in DOMAIN d \cup {key} |-> IF k = key THEN value ELSE d[k]]

SetTask(c, t) == task' = [task EXCEPT ![c] = t]

\* ------------------------------------------------------------- the server
\* mutant: a threading server, which starts a handler per connection
ServerFree_threaded == TRUE

\* serve(): SimpleXMLRPCServer is a plain TCPServer; serve_forever handles a
\* connection to completion before it accepts the next one.
ServerFree == \A c \in Clients : ~Active(c)

\* a client connects and sends process_image(filename, image_data, options)
Submit(c) ==
    /\ task[c].pc = "idle"
    /\ issued + Cardinality({d \in Clients : task[d].pc = "pending"}) < MaxRequests
    /\ SetTask(c, [IdleTask EXCEPT !.pc = "pending"])
    /\ calls' = [calls EXCEPT ![c] = <<>>]
    /\ UNCHANGED <<hosts, idx, selLog, issued, latency>>

\* ------------------------------------------------- stage enable policy
\* Each operator is the code from the top of a stage down to its next
\* blocking point: the frame t either enters _get_next_host for the stage
\* or falls through to the following stage.

\* mutant: the code after the watermark stage starts the pipeline over
StageFormat_restart(t) == [t EXCEPT !.pc = "get_host", !.service_type = "resize"]

\* mutant: the format stage runs only when an output format was asked for
StageFormat_optional(t) ==
    IF "output_format" \in DOMAIN t.options
    THEN [t EXCEPT !.pc = "get_host", !.service_type = "format"]
    ELSE [t EXCEPT !.pc = "done",
                   !.response = [success |-> TRUE,
                                 message |-> <<"Processing completed successfully">>,
                                 process_id |-> t.process_id,
                                 processed_image |-> t.current_image,
                                 stats |-> t.stats]]

\* STAGE 4: the format stage has no condition
StageFormat(t) == [t EXCEPT !.pc = "get_host", !.service_type = "format"]

\* mutant: the watermark is added only to an image an earlier stage changed
StageWatermark_ifchanged(t) ==
    IF Get(t.options, "add_watermark", FALSE) /\ t.current_image # t.image_data
    THEN [t EXCEPT !.pc = "get_host", !.service_type = "watermark"]
    ELSE StageFormat(t)

\* STAGE 3: if options.get('add_watermark', False)
StageWatermark(t) ==
    IF Get(t.options, "add_watermark", FALSE)
    THEN [t EXCEPT !.pc = "get_host", !.service_type = "watermark"]
    ELSE StageFormat(t)

\* mutant: a host is selected for the first filter only and reused
FilterLoop_onehost(t) ==
    IF t.i < Len(t.options.filters)
    THEN [t EXCEPT !.pc = IF t.i = 0 THEN "get_host" ELSE "call",
                   !.service_type = "filter"]
    ELSE StageWatermark([t EXCEPT !.stats.filter_time_ms = Ms(t.clock - t.filter_start)])

\* for i, filter_type in enumerate(filters); after the last one the elapsed
\* wall-clock time of the whole loop becomes filter_time_ms
FilterLoop(t) ==
    IF t.i < Len(t.options.filters)
    THEN [t EXCEPT !.pc = "get_host", !.service_type = "filter"]
    ELSE StageWatermark([t EXCEPT !.stats.filter_time_ms = Ms(t.clock - t.filter_start)])

\* STAGE 2: filters = options.get('filters', []); if filters: ...
StageFilters(t) ==
    IF Get(t.options, "filters", <<>>) # <<>>
    THEN FilterLoop([t EXCEPT !.i = 0, !.filter_start = t.clock])
    ELSE StageWatermark(t)

\* mutant: the dimensions are compared with >= 0
ResizeEnabled_ge(options) ==
    Get(options, "target_width", 0) >= 0 \/ Get(options, "target_height", 0) >= 0

\* STAGE 1: if target_width > 0 or target_height > 0
ResizeEnabled(options) ==
    Get(options, "target_width", 0) > 0 \/ Get(options, "target_height", 0) > 0

StageResize(t) ==
    IF ResizeEnabled(t.options)
    THEN [t EXCEPT !.pc = "get_host", !.service_type = "resize"]
    ELSE StageFilters(t)

\* ------------------------------------------------------------- responses
\* mutant: the error response is built without the request's process id
ErrorResponse_noid(process_id, message) ==
    [success |-> FALSE, message |-> message, process_id |-> 0,
     processed_image |-> <<>>, stats |-> NoStats]

\* _error_response
ErrorResponse(process_id, message) ==
    [success |-> FALSE, message |-> message, process_id |-> process_id,
     processed_image |-> <<>>, stats |-> NoStats]

\* process_image, lines 81-98: process id, start time, payload, stats.
\* Lines 86-98 stand before the try: Binary(image_data) raises TypeError for
\* a str (line 89) and len(image_data) raises it for None (line 92); the
\* server's dispatcher turns the exception into an XML-RPC Fault.  From line
\* 100 on an exception is caught: options.get of a None fails at line 102
\* and is answered with _error_response.
ProcessImageBegin(c) ==
    /\ task[c].pc = "pending"
    /\ ServerFree
    /\ \/ \E image \in Originals, options \in OptionSets \cup {NoneOptions} :
             LET t == [task[c] EXCEPT
                          !.process_id = issued + 1,
                          !.image_data = image,
                          !.options = options,
                          !.current_image = image,
                          !.stats = InitStats(image)]
             IN  IF options = NoneOptions
                 THEN SetTask(c, [t EXCEPT !.pc = "done",
                          !.response = ErrorResponse(issued + 1, <<NoneGetError>>)])
                 ELSE SetTask(c, StageResize(t))
       \/ \E bad \in MalformedImages :
             SetTask(c, [task[c] EXCEPT
                          !.pc = "fault",
                          !.process_id = issued + 1,
                          !.response = [faultString |-> <<"TypeError", bad>>]])
    /\ issued' = issued + 1
    /\ UNCHANGED <<hosts, idx, calls, selLog, latency>>

\* ------------------------------------------------------- _get_next_host
\* mutant: the counter stops at the last host instead of wrapping
NextIdx_nowrap(service_type) ==
    IF idx[service_type] + 1 < Len(hosts[service_type])
    THEN idx[service_type] + 1 ELSE idx[service_type]

\* mutant: the counter is incremented without the modulo
NextIdx_nomod(service_type) == idx[service_type] + 1

NextIdx(service_type) == (idx[service_type] + 1) % Len(hosts[service_type])

\* host = self.X_hosts[self.X_idx]
GetNextHostRead(c) ==
    /\ task[c].pc = "get_host"
    /\ LET s == task[c].service_type
           h == hosts[s][idx[s] + 1]
       IN  /\ SetTask(c, [task[c] EXCEPT !.pc = "advance", !.host = h,
                              !.picks = Append(@, [service_type |-> s, host |-> h])])
           /\ selLog' = [selLog EXCEPT ![s] = Append(@, h)]
    /\ UNCHANGED <<hosts, idx, calls, issued, latency>>

\* mutant: the host is returned without the cursor being advanced; the
\* slot is given again to the next selection
GetNextHostAdvance_keepslot(c) ==
    /\ task[c].pc = "advance"
    /\ idx' = idx
    /\ SetTask(c, [task[c] EXCEPT !.pc = "call"])
    /\ UNCHANGED <<hosts, calls, selLog, issued, latency>>

\* mutant: one cursor for all pools: a selection advances every pool
GetNextHostAdvance_shared(c) ==
    /\ task[c].pc = "advance"
    /\ idx' = [s \in StageSet |-> (idx[s] + 1) % Len(hosts[s])]
    /\ SetTask(c, [task[c] EXCEPT !.pc = "call"])
    /\ UNCHANGED <<hosts, calls, selLog, issued, latency>>

\* self.X_idx = (self.X_idx + 1) % len(self.X_hosts); return host
GetNextHostAdvance(c) ==
    /\ task[c].pc = "advance"
    /\ idx' = [idx EXCEPT ![task[c].service_type] = NextIdx(task[c].service_type)]
    /\ SetTask(c, [task[c] EXCEPT !.pc = "call"])
    /\ UNCHANGED <<hosts, calls, selLog, issued, latency>>

\* mutant: the trace entry is the host the pool's cursor points at when the
\* reply arrives
RecordHost_cursor(host_map, label, t) ==
    Put(host_map, label, hosts[t.service_type][idx[t.service_type] + 1])

\* stats['host_map'][label] = <stage>_host: the local the proxy was opened on
RecordHost(host_map, label, t) == Put(host_map, label, t.host)

\* mutant: a failed call is tried again on the next host of the pool
Fail_retry(c, result, message) ==
    /\ SetTask(c, [task[c] EXCEPT !.pc = "get_host"])
    /\ calls' = [calls EXCEPT ![c][Len(calls[c])].result = result]

\* what a collaborator at host may answer: nothing listens at http://
Answers(host, replies) == IF host = EmptyHost THEN {} ELSE replies

\* what the proxy call to host may raise: a reply can only be malformed
\* when there is one
RaisedBy(host) == IF host = EmptyHost THEN {"Connection refused"} ELSE Faults

\* mutant: a failure puts the request's original image back as the payload
Fail_rollback(c, result, message) ==
    /\ SetTask(c, [task[c] EXCEPT !.pc = "done",
                     !.current_image = task[c].image_data,
                     !.response = ErrorResponse(task[c].process_id, message)])
    /\ calls' = [calls EXCEPT ![c][Len(calls[c])].result = result]

\* mutant: a failure also throws out the requests waiting for the server
Fail_dropwaiting(c, result, message) ==
    /\ task' = [d \in Clients |->
                  IF d = c
                  THEN [task[c] EXCEPT !.pc = "done",
                           !.response = ErrorResponse(task[c].process_id, message)]
                  ELSE IF task[d].pc = "pending" THEN IdleTask ELSE task[d]]
    /\ calls' = [calls EXCEPT ![c][Len(calls[c])].result = result]

\* raise Exception(...) / a fault of the proxy, caught by
\* except Exception as e: return self._error_response(process_id, str(e))
Fail(c, result, message) ==
    /\ SetTask(c, [task[c] EXCEPT !.pc = "done",
                     !.response = ErrorResponse(task[c].process_id, message)])
    /\ calls' = [calls EXCEPT ![c][Len(calls[c])].result = result]

\* mutant: the collaborators are called without the process id
Dispatch_noid(c, label, params) ==
    /\ calls' = [calls EXCEPT ![c] = Append(@,
                    [label |-> label, service_type |-> task[c].service_type,
                     host |-> task[c].host, image |-> task[c].current_image,
                     process_id |-> 0, params |-> params,
                     result |-> "inflight", out |-> <<>>])]
    /\ SetTask(c, [task[c] EXCEPT !.pc = "wait"])

\* mutant: every stage is sent the request's original image
Dispatch_original(c, label, params) ==
    /\ calls' = [calls EXCEPT ![c] = Append(@,
                    [label |-> label, service_type |-> task[c].service_type,
                     host |-> task[c].host, image |-> task[c].image_data,
                     process_id |-> task[c].process_id, params |-> params,
                     result |-> "inflight", out |-> <<>>])]
    /\ SetTask(c, [task[c] EXCEPT !.pc = "wait"])

\* the proxy call is sent; the coordinator blocks until it returns
Dispatch(c, label, params) ==
    /\ calls' = [calls EXCEPT ![c] = Append(@,
                    [label |-> label, service_type |-> task[c].service_type,
                     host |-> task[c].host, image |-> task[c].current_image,
                     process_id |-> task[c].process_id, params |-> params,
                     result |-> "inflight", out |-> <<>>])]
    /\ SetTask(c, [task[c] EXCEPT !.pc = "wait"])

\* the collaborator's reply (success=True) to the call in flight
Reply(c, image) ==
    calls' = [calls EXCEPT ![c][Len(calls[c])].result = "ok",
                           ![c][Len(calls[c])].out = image]

\* finalize: total time, processed size, the orchestrator's own trace entry
FinalStats(t) ==
    Put(Put([t.stats EXCEPT !.host_map = Put(@, <<"Orchestrator">>, <<"Device 5 (Master)">>)],
            "total_time_ms", Ms(t.clock)),
        "processed_size_bytes", Len(t.current_image))

\* mutant: the response carries the image as it was before the pipeline
SuccessResponse_unprocessed(t) ==
    [success |-> TRUE, message |-> <<"Processing completed successfully">>,
     process_id |-> t.process_id, processed_image |-> t.image_data,
     stats |-> FinalStats(t)]

\* return {'success': True, ...}, lines 221-227
SuccessResponse(t) ==
    [success |-> TRUE, message |-> <<"Processing completed successfully">>,
     process_id |-> t.process_id, processed_image |-> t.current_image,
     stats |-> FinalStats(t)]

\* ------------------------------------------------------ STAGE 1: RESIZE
ResizeCall(c) ==
    /\ task[c].pc = "call" /\ task[c].service_type = "resize"
    /\ Dispatch(c, <<"Resize">>,
                [target_width  |-> Get(task[c].options, "target_width", 0),
                 target_height |-> Get(task[c].options, "target_height", 0),
                 maintain_aspect_ratio |-> TRUE])
    /\ UNCHANGED <<hosts, idx, selLog, issued, latency>>

ResizeReturn(c) ==
    /\ task[c].pc = "wait" /\ task[c].service_type = "resize"
    /\ \/ \E l \in Answers(task[c].host, latency) :
            LET image == Append(task[c].current_image, "R")
            IN  /\ Reply(c, image)
                /\ SetTask(c, StageFilters([task[c] EXCEPT
                       !.current_image = image,
                       !.clock = @ + l[1],
                       !.stats = [@ EXCEPT
                           !.resize_time_ms = Ms(l[2]),
                           !.host_map = RecordHost(@, <<"Resize">>, task[c])]]))
       \/ \E m \in Answers(task[c].host, Messages) : Fail(c, "fail", <<"Resize failed: ", m>>)
       \/ \E f \in RaisedBy(task[c].host) : Fail(c, "raise", <<f>>)
    /\ UNCHANGED <<hosts, idx, selLog, issued, latency>>

\* ----------------------------------------------------- STAGE 2: FILTERS
\* mutant: the label carries the 0-based loop index
FilterLabel_zero(i, filter_type) == <<"Filter-", i, filter_type>>

FilterLabel(i, filter_type) == <<"Filter-", i + 1, filter_type>>

FilterCall(c) ==
    /\ task[c].pc = "call" /\ task[c].service_type = "filter"
    /\ LET filter_type == task[c].options.filters[task[c].i + 1]
       IN  Dispatch(c, FilterLabel(task[c].i, filter_type),
                    [filter_type |-> filter_type, intensity_tenths |-> 10])
    /\ UNCHANGED <<hosts, idx, selLog, issued, latency>>

FilterReturn(c) ==
    /\ task[c].pc = "wait" /\ task[c].service_type = "filter"
    /\ LET filter_type == task[c].options.filters[task[c].i + 1]
       IN  \/ \E l \in Answers(task[c].host, latency) :
                LET image == Append(task[c].current_image, filter_type)
                IN  /\ Reply(c, image)
                    /\ SetTask(c, FilterLoop([task[c] EXCEPT
                           !.i = @ + 1,
                           !.current_image = image,
                           !.clock = @ + l[1],
                           !.stats = [@ EXCEPT !.host_map =
                               RecordHost(@, FilterLabel(task[c].i, filter_type), task[c])]]))
           \/ \E m \in Answers(task[c].host, Messages) :
                Fail(c, "fail", <<"Filter ", filter_type, " failed: ", m>>)
           \/ \E f \in RaisedBy(task[c].host) : Fail(c, "raise", <<f>>)
    /\ UNCHANGED <<hosts, idx, selLog, issued, latency>>

\* --------------------------------------------------- STAGE 3: WATERMARK
WatermarkCall(c) ==
    /\ task[c].pc = "call" /\ task[c].service_type = "watermark"
    /\ Dispatch(c, <<"Watermark">>,
                [text      |-> Get(task[c].options, "watermark_text", ""),
                 position  |-> Get(task[c].options, "watermark_position", "bottom-right"),
                 font_size |-> FontSize,
                 color     |-> "#FFFFFF",
                 opacity_tenths |-> 8])
    /\ UNCHANGED <<hosts, idx, selLog, issued, latency>>

WatermarkReturn(c) ==
    /\ task[c].pc = "wait" /\ task[c].service_type = "watermark"
    /\ \/ \E l \in Answers(task[c].host, latency) :
            LET image == Append(task[c].current_image, "W")
            IN  /\ Reply(c, image)
                /\ SetTask(c, StageFormat([task[c] EXCEPT
                       !.current_image = image,
                       !.clock = @ + l[1],
                       !.stats = [@ EXCEPT
                           !.watermark_time_ms = Ms(l[2]),
                           !.host_map = RecordHost(@, <<"Watermark">>, task[c])]]))
       \/ \E m \in Answers(task[c].host, Messages) : Fail(c, "fail", <<"Watermark failed: ", m>>)
       \/ \E f \in RaisedBy(task[c].host) : Fail(c, "raise", <<f>>)
    /\ UNCHANGED <<hosts, idx, selLog, issued, latency>>

\* ------------------------------------------ STAGE 4: FORMAT/COMPRESSION
\* mutant: the quality is passed on as given, 0 included
TargetQuality_asgiven(options) == Get(options, "output_quality", DefaultQuality)

\* target_quality = options.get('output_quality', 90); 0 becomes 90
TargetQuality(options) ==
    LET target_quality == Get(options, "output_quality", DefaultQuality)
    IN  IF target_quality = 0 THEN DefaultQuality ELSE target_quality

\* mutant: the default quality is stored into the request's options
FormatCall_writeback(c) ==
    /\ task[c].pc = "call" /\ task[c].service_type = "format"
    /\ calls' = [calls EXCEPT ![c] = Append(@,
                    [label |-> <<"Format">>, service_type |-> "format",
                     host |-> task[c].host, image |-> task[c].current_image,
                     process_id |-> task[c].process_id,
                     params |-> [target_format  |-> Get(task[c].options, "output_format", "PNG"),
                                 target_quality |-> TargetQuality(task[c].options)],
                     result |-> "inflight", out |-> <<>>])]
    /\ SetTask(c, [task[c] EXCEPT
                     !.pc = "wait",
                     !.options = Put(@, "output_quality", TargetQuality(@))])
    /\ UNCHANGED <<hosts, idx, selLog, issued, latency>>

FormatCall(c) ==
    /\ task[c].pc = "call" /\ task[c].service_type = "format"
    /\ Dispatch(c, <<"Format">>,
                [target_format  |-> Get(task[c].options, "output_format", "PNG"),
                 target_quality |-> TargetQuality(task[c].options)])
    /\ UNCHANGED <<hosts, idx, selLog, issued, latency>>

\* mutant: the format service encodes with the quality it was given
EncodingQuality_asgiven(quality) == quality

\* format_service.convert_format: if quality <= 0 or quality > 100: quality = 85
EncodingQuality(quality) ==
    IF quality <= 0 \/ quality > 100 THEN FormatFallbackQuality ELSE quality

\* the format service's reply, with the quality it encoded with
FormatReply(c, image) ==
    calls' = [calls EXCEPT ![c][Len(calls[c])] =
                 [@ EXCEPT !.result = "ok",
                           !.out = image,
                           !.params = Put(@, "quality", EncodingQuality(@.target_quality))]]

\* on success the code runs on through "Finalize" to the return statement
FormatReturn(c) ==
    /\ task[c].pc = "wait" /\ task[c].service_type = "format"
    /\ \/ \E l \in Answers(task[c].host, latency) :
            LET image == Append(task[c].current_image, "F")
                t == [task[c] EXCEPT
                       !.current_image = image,
                       !.clock = @ + l[1],
                       !.stats = [@ EXCEPT
                           !.format_time_ms = Ms(l[2]),
                           !.host_map = RecordHost(@, <<"Format">>, task[c])]]
            IN  /\ FormatReply(c, image)
                /\ SetTask(c, [t EXCEPT !.pc = "done", !.response = SuccessResponse(t)])
       \/ \E m \in Answers(task[c].host, Messages) : Fail(c, "fail", <<"Format failed: ", m>>)
       \/ \E f \in RaisedBy(task[c].host) : Fail(c, "raise", <<f>>)
    /\ UNCHANGED <<hosts, idx, selLog, issued, latency>>

\* ------------------------------------------------- get_processing_status
\* mutant: the status depends on whether the id was ever issued
StatusResponse_tracking(process_id) ==
    [process_id |-> process_id,
     status |-> IF process_id \in 1..issued THEN "completed" ELSE "unknown",
     progress_percent |-> IF process_id \in 1..issued THEN 100 ELSE 0,
     current_stage |-> "done", stats |-> NoStats]

StatusResponse(process_id) ==
    [process_id |-> process_id, status |-> "completed",
     progress_percent |-> 100, current_stage |-> "done", stats |-> NoStats]

\* the server dispatches a connection's request to get_processing_status;
\* the id asked for is any id, issued or not
GetProcessingStatus(c) ==
    /\ task[c].pc = "pending"
    /\ ServerFree
    /\ \E process_id \in StatusIds :
          SetTask(c, [task[c] EXCEPT !.pc = "status",
                                     !.response = StatusResponse(process_id)])
    /\ UNCHANGED <<hosts, idx, calls, selLog, issued, latency>>

\* the XML-RPC server writes the response; the request's frame is discarded
Deliver(c) ==
    /\ task[c].pc \in {"done", "fault", "status"}
    /\ SetTask(c, IdleTask)
    /\ calls' = [calls EXCEPT ![c] = <<>>]
    /\ UNCHANGED <<hosts, idx, selLog, issued, latency>>

Next ==
    \E c \in Clients :
        \/ Submit(c)
        \/ ProcessImageBegin(c)
        \/ GetProcessingStatus(c)
        \/ GetNextHostRead(c)
        \/ GetNextHostAdvance(c)
        \/ ResizeCall(c)
        \/ ResizeReturn(c)
        \/ FilterCall(c)
        \/ FilterReturn(c)
        \/ WatermarkCall(c)
        \/ WatermarkReturn(c)
        \/ FormatCall(c)
        \/ FormatReturn(c)
        \/ Deliver(c)

Spec == Init /\ [][Next]_vars

\* what the server does for connection c once it has sent its request
Handle(c) ==
    \/ ProcessImageBegin(c)
    \/ GetProcessingStatus(c)
    \/ GetNextHostRead(c)
    \/ GetNextHostAdvance(c)
    \/ ResizeCall(c)
    \/ ResizeReturn(c)
    \/ FilterCall(c)
    \/ FilterReturn(c)
    \/ WatermarkCall(c)
    \/ WatermarkReturn(c)
    \/ FormatCall(c)
    \/ FormatReturn(c)
    \/ Deliver(c)

\* serve_forever keeps taking connections and runs each handler to its end;
\* a proxy call that was sent returns or raises
SpecLive == Init /\ [][Next]_vars /\ \A c \in Clients : WF_vars(Handle(c))

\* the timing analysis: one request, every latency
SpecTiming == InitTiming /\ [][Next]_vars

\* =================================================================
\* Properties
\* =================================================================
Rank(service_type) == CHOOSE k \in 1..Len(Stages) : Stages[k] = service_type

CallsOf(c, service_type) ==
    {k \in 1..Len(calls[c]) : calls[c][k].service_type = service_type}

InFlight(c) == {k \in 1..Len(calls[c]) : calls[c][k].result = "inflight"}

Done(c) == task[c].pc = "done"

\* C1: the calls of one request are dispatched in the order Resize, filters
\* (by index), Watermark, Format; every call but the last has returned
\* successfully before the next was dispatched, and at most one call of a
\* request is in flight.
C1_FixedOrderOneInFlight ==
    \A c \in Clients :
        /\ \A k \in 1..(Len(calls[c]) - 1) :
              LET a == calls[c][k]
                  b == calls[c][k + 1]
              IN  /\ a.result = "ok"
                  /\ \/ Rank(a.service_type) < Rank(b.service_type)
                     \/ /\ a.service_type = "filter" /\ b.service_type = "filter"
                        /\ b.label[2] = a.label[2] + 1
        /\ Cardinality(InFlight(c)) <= 1
        /\ InFlight(c) # {} <=> task[c].pc = "wait"

\* a request that ran all four stages, two filters, and has its Format call
\* in flight
C1_Witness ==
    \E c \in Clients :
        /\ Len(calls[c]) = 5
        /\ calls[c][1].service_type = "resize"
        /\ calls[c][3].service_type = "filter"
        /\ calls[c][4].service_type = "watermark"
        /\ calls[c][5].result = "inflight"

\* "<Stage> failed: <collaborator message>" for the call a
FailureMessages(a) ==
    CASE a.service_type = "resize"    -> {<<"Resize failed: ", m>> : m \in Messages}
      [] a.service_type = "filter"    ->
            {<<"Filter ", a.params.filter_type, " failed: ", m>> : m \in Messages}
      [] a.service_type = "watermark" -> {<<"Watermark failed: ", m>> : m \in Messages}
      [] a.service_type = "format"    -> {<<"Format failed: ", m>> : m \in Messages}

\* C2: a call whose collaborator reported success=false is the last call of
\* its request, and the request is answered with success=false, an empty
\* processed_image, its own process_id and the message naming the stage.
C2_AbortOnReportedFailure ==
    \A c \in Clients : \A k \in 1..Len(calls[c]) :
        calls[c][k].result = "fail" =>
            /\ k = Len(calls[c])
            /\ Done(c)
            /\ task[c].response.success = FALSE
            /\ task[c].response.processed_image = <<>>
            /\ task[c].response.process_id = task[c].process_id
            /\ task[c].response.process_id = calls[c][k].process_id
            /\ task[c].response.message \in FailureMessages(calls[c][k])

\* the second filter of a request reported failure after resize and filter 1
C2_Witness ==
    \E c \in Clients :
        /\ Done(c)
        /\ Len(calls[c]) = 3
        /\ calls[c][3].service_type = "filter"
        /\ calls[c][3].result = "fail"
        /\ Get(task[c].options, "add_watermark", FALSE)

Failed(c) == Done(c) /\ ~task[c].response.success
Succeeded(c) == Done(c) /\ task[c].response.success

\* labels of the calls of c that returned successfully
CompletedLabels(c) ==
    {calls[c][k].label : k \in {j \in 1..Len(calls[c]) : calls[c][j].result = "ok"}}

\* C3: the stats of a failure response hold the partial statistics: a
\* host_map entry for exactly the calls that completed, and their timings.
C3_PartialStatsOnFailure ==
    \A c \in Clients :
        Failed(c) =>
            /\ "host_map" \in DOMAIN task[c].response.stats
            /\ DOMAIN task[c].response.stats.host_map = CompletedLabels(c)
            /\ task[c].response.stats.resize_time_ms = task[c].stats.resize_time_ms

PoolPos(service_type, k) == ((k - 1) % Len(hosts[service_type])) + 1

Count(service_type, h) ==
    Cardinality({k \in 1..Len(selLog[service_type]) : selLog[service_type][k] = h})

\* C4: the k-th selection on a pool (k = 0, 1, ...) returns addresses[k mod N],
\* so after M selections every host was chosen floor(M/N) or ceil(M/N) times.
C4_RoundRobinOrder ==
    \A s \in StageSet :
        LET N == Len(hosts[s])
            M == Len(selLog[s])
        IN  /\ \A k \in 1..M : selLog[s][k] = hosts[s][PoolPos(s, k)]
            /\ \A j \in 1..N :
                  /\ Count(s, hosts[s][j]) >= M \div N
                  /\ Count(s, hosts[s][j]) <= (M + N - 1) \div N

\* the Filter pool of two hosts has wrapped: three selections, the third on
\* the first host again
C4_Witness ==
    /\ Len(hosts["filter"]) = 2
    /\ Len(selLog["filter"]) >= 3
    /\ selLog["filter"][3] = hosts["filter"][1]
    /\ Len(selLog["resize"]) = 2

\* C5: selections of concurrently submitted requests never overlap inside
\* _get_next_host, and the hosts handed out are, as a multiset, those of the
\* same number of sequential round-robin selections; two selections in a row
\* on a pool of two or more hosts return different hosts.
C5_AtomicSelection ==
    /\ Cardinality({c \in Clients : task[c].pc = "advance"}) <= 1
    /\ \A s \in StageSet : \A j \in 1..Len(hosts[s]) :
          Count(s, hosts[s][j]) =
              Cardinality({k \in 1..Len(selLog[s]) : PoolPos(s, k) = j})
    /\ \A s \in StageSet : \A k \in 1..(Len(selLog[s]) - 1) :
          Len(hosts[s]) >= 2 => selLog[s][k] # selLog[s][k + 1]

\* two requests are in flight at once: one is inside _get_next_host between
\* the read and the advance of its second Filter selection, which returned
\* the host after the one of the first, and the other waits for the server
C5_Witness ==
    \E c, d \in Clients :
        /\ task[d].pc = "pending"
        /\ task[c].pc = "advance" /\ task[c].service_type = "filter"
        /\ Len(hosts["filter"]) >= 2
        /\ Len(selLog["filter"]) >= 2
        /\ task[c].host = selLog["filter"][Len(selLog["filter"])]
        /\ task[c].host # selLog["filter"][Len(selLog["filter"]) - 1]

\* C6: every cursor is an index into its own pool.
C6_CursorInRange ==
    \A s \in StageSet : idx[s] \in 0..(Len(hosts[s]) - 1)

\* a request has failed while another one waits, with the Filter cursor
\* wrapped back to the first of two hosts
C6_Witness ==
    \E c, d \in Clients :
        /\ Failed(c)
        /\ task[d].pc = "pending"
        /\ Len(hosts["filter"]) = 2 /\ Len(selLog["filter"]) = 2
        /\ idx["filter"] = 0

SkipsAll(options) ==
    /\ "target_width" \in DOMAIN options
    /\ options.target_width = 0 /\ options.target_height = 0
    /\ options.filters = <<>> /\ ~options.add_watermark

\* C7: a request with target_width=0, target_height=0, filters=[] and
\* add_watermark=false makes no call but the Format call, and its successful
\* response reports resize, filter and watermark time 0.
C7_StageSkip ==
    \A c \in Clients :
        (Active(c) /\ SkipsAll(task[c].options)) =>
            /\ \A k \in 1..Len(calls[c]) : calls[c][k].service_type = "format"
            /\ Len(calls[c]) <= 1
            /\ Succeeded(c) =>
                  /\ Len(calls[c]) = 1
                  /\ task[c].response.stats.resize_time_ms = 0
                  /\ task[c].response.stats.filter_time_ms = 0
                  /\ task[c].response.stats.watermark_time_ms = 0

C7_Witness ==
    \E c \in Clients :
        /\ Succeeded(c) /\ SkipsAll(task[c].options)
        /\ task[c].response.stats.format_time_ms > 0

\* the labels of the stage calls a successful request made, from its options
StageLabels(c) ==
    LET filters == Get(task[c].options, "filters", <<>>)
    IN  (IF CallsOf(c, "resize") # {} THEN {<<"Resize">>} ELSE {})
        \cup {<<"Filter-", k, filters[k]>> : k \in 1..Len(filters)}
        \cup (IF CallsOf(c, "watermark") # {} THEN {<<"Watermark">>} ELSE {})
        \cup {<<"Format">>}

\* C8 as stated: on success the keys of host_map are exactly the labels of
\* the stage calls that ran.
C8_HostMapOnlyStages ==
    \A c \in Clients :
        Succeeded(c) => DOMAIN task[c].response.stats.host_map = StageLabels(c)

\* C8 amended: on success the keys of host_map are the labels of the stage
\* calls that ran ("Resize", "Filter-i (name)" with 1-based i, "Watermark",
\* "Format") and the key "Orchestrator", which every successful response has.
C8_HostMapStagesAndOrchestrator ==
    \A c \in Clients :
        Succeeded(c) =>
            /\ DOMAIN task[c].response.stats.host_map
                   = StageLabels(c) \cup {<<"Orchestrator">>}
            /\ Cardinality(DOMAIN task[c].response.stats.host_map)
                   = Len(calls[c]) + 1
            /\ \A k \in 1..Len(calls[c]) :
                  task[c].response.stats.host_map[calls[c][k].label] = calls[c][k].host

\* resize + one GRAYSCALE filter + watermark succeeded
C8_Witness ==
    \E c \in Clients :
        /\ Succeeded(c)
        /\ DOMAIN task[c].response.stats.host_map =
              {<<"Resize">>, <<"Filter-", 1, "GRAYSCALE">>, <<"Watermark">>,
               <<"Format">>, <<"Orchestrator">>}

PicksOf(c, service_type) ==
    {k \in 1..Len(task[c].picks) : task[c].picks[k].service_type = service_type}

Selecting(c) == task[c].pc \in {"advance", "call"}

\* position of a host in its pool
PosInPool(service_type, h) ==
    CHOOSE j \in 1..Len(hosts[service_type]) : hosts[service_type][j] = h

\* C9: a request selects a host once per collaborator call, right before the
\* call: the k-th call goes to the k-th host selected; a request whose k
\* filters all succeeded made k Filter selections, on consecutive entries of
\* the Filter pool, and at most one selection on each other pool.
C9_OneSelectionPerCall ==
    \A c \in Clients :
        /\ Len(task[c].picks) = Len(calls[c]) + (IF Selecting(c) THEN 1 ELSE 0)
        /\ \A k \in 1..Len(calls[c]) :
              /\ task[c].picks[k].service_type = calls[c][k].service_type
              /\ task[c].picks[k].host = calls[c][k].host
        /\ \A s \in StageSet \ {"filter"} : Cardinality(PicksOf(c, s)) <= 1
        /\ Succeeded(c) =>
              Cardinality(PicksOf(c, "filter")) = Len(Get(task[c].options, "filters", <<>>))
        /\ \A k \in 1..(Len(task[c].picks) - 1) :
              (task[c].picks[k].service_type = "filter"
                 /\ task[c].picks[k + 1].service_type = "filter") =>
              PosInPool("filter", task[c].picks[k + 1].host) =
                  (PosInPool("filter", task[c].picks[k].host) % Len(hosts["filter"])) + 1

\* two filters of one request went to the two hosts of the Filter pool
C9_Witness ==
    \E c \in Clients :
        /\ Succeeded(c)
        /\ Len(Get(task[c].options, "filters", <<>>)) = 2
        /\ Cardinality({task[c].picks[k].host : k \in PicksOf(c, "filter")}) = 2

\* C10: the k-th Filter call of a request applies the k-th entry of its
\* filter list; it is dispatched after the previous filter returned success
\* and is sent exactly the image that filter returned.
C10_FiltersInListOrder ==
    \A c \in Clients : \A k \in 1..Len(calls[c]) :
        calls[c][k].service_type = "filter" =>
            LET n == Cardinality({j \in CallsOf(c, "filter") : j <= k})
            IN  /\ calls[c][k].params.filter_type = task[c].options.filters[n]
                /\ n > 1 =>
                      /\ calls[c][k - 1].service_type = "filter"
                      /\ calls[c][k - 1].result = "ok"
                      /\ calls[c][k].image = calls[c][k - 1].out
                      /\ calls[c][k].image # calls[c][k - 1].image

\* resize, BLUR, GRAYSCALE: the GRAYSCALE call was sent the resized and
\* blurred image
C10_Witness ==
    \E c \in Clients :
        /\ Len(calls[c]) >= 3
        /\ calls[c][2].params = [filter_type |-> "BLUR", intensity_tenths |-> 10]
        /\ calls[c][3].params = [filter_type |-> "GRAYSCALE", intensity_tenths |-> 10]
        /\ calls[c][3].image = Append(Append(task[c].image_data, "R"), "BLUR")

\* C11: the Format call is never skipped: a request none of whose calls
\* failed has dispatched exactly one Format call, whatever its options, and a
\* Format call is the last call of its request.
C11_FormatAlwaysLast ==
    \A c \in Clients :
        /\ \A k \in CallsOf(c, "format") : k = Len(calls[c])
        /\ (/\ Done(c)
            /\ task[c].options # NoneOptions
            /\ \A k \in 1..Len(calls[c]) : calls[c][k].result = "ok") =>
              /\ Cardinality(CallsOf(c, "format")) = 1
              /\ Succeeded(c)
        /\ Succeeded(c) => Cardinality(CallsOf(c, "format")) = 1

\* a request with an empty options dict succeeded with one call, to Format
C11_Witness ==
    \E c \in Clients :
        /\ Succeeded(c)
        /\ task[c].options = NoOptions
        /\ Len(calls[c]) = 1
        /\ calls[c][1].label = <<"Format">>

\* C12: the Format collaborator is called with quality 90 when the request's
\* output_quality is 0 or missing, and with the request's output_quality
\* otherwise.
C12_DefaultQuality ==
    \A c \in Clients : \A k \in CallsOf(c, "format") :
        LET q == calls[c][k].params.target_quality
        IN  IF "output_quality" \notin DOMAIN task[c].options
            THEN q = 90
            ELSE IF task[c].options.output_quality = 0
                 THEN q = 90
                 ELSE q = task[c].options.output_quality

\* a request with output_quality 0 has its Format call out with quality 90
C12_Witness ==
    \E c \in Clients :
        /\ CallsOf(c, "format") # {}
        /\ Get(task[c].options, "output_quality", 1) = 0
        /\ calls[c][Len(calls[c])].params.target_quality = 90

\* C13: no call is retried: the labels of the calls of a request are pairwise
\* different, a call that failed (reported or raised) is the last call of
\* its request, and no host is selected after it.
C13_NoRetry ==
    \A c \in Clients :
        /\ \A j, k \in 1..Len(calls[c]) :
              j # k => calls[c][j].label # calls[c][k].label
        /\ \A k \in 1..Len(calls[c]) :
              calls[c][k].result \in {"fail", "raise"} =>
                  /\ k = Len(calls[c])
                  /\ Done(c)
                  /\ Len(task[c].picks) = k
        /\ \A s \in StageSet \ {"filter"} : Cardinality(CallsOf(c, s)) <= 1
        /\ Cardinality(CallsOf(c, "filter")) <= Len(Get(task[c].options, "filters", <<>>))

\* the first Filter call of a request could not reach its host while the
\* pool had a second host: the request ended there
C13_Witness ==
    \E c \in Clients :
        /\ Done(c)
        /\ Len(hosts["filter"]) >= 2
        /\ Len(calls[c]) > 0
        /\ calls[c][Len(calls[c])].service_type = "filter"
        /\ calls[c][Len(calls[c])].result = "raise"
        /\ Cardinality(PicksOf(c, "filter")) = 1
        /\ Len(task[c].options.filters) >= 2

\* C14: a request in progress has a process id of its own, generated for it;
\* every collaborator call of the request carries it, and so does the
\* response, successful or not.
C14_ProcessId ==
    \A c \in Clients :
        task[c].pc \notin {"idle", "pending", "status"} =>
            /\ task[c].process_id \in 1..issued
            /\ \A d \in Clients \ {c} :
                  task[d].pc \notin {"idle", "pending", "status"} =>
                      task[d].process_id # task[c].process_id
            /\ \A k \in 1..Len(calls[c]) :
                  calls[c][k].process_id = task[c].process_id
            /\ Done(c) => task[c].response.process_id = task[c].process_id

\* the second request failed after two calls that carried its id
C14_Witness ==
    \E c \in Clients :
        /\ Failed(c)
        /\ task[c].response.process_id = 2
        /\ Len(calls[c]) = 2
        /\ calls[c][1].process_id = 2

\* C15: no input makes process_image end in a fault of the XML-RPC layer:
\* every request that was accepted is answered with a response record.
C15_NoUnhandledFault ==
    \A c \in Clients : task[c].pc # "fault"

\* what does hold: once the try block is entered (line 100) every failure,
\* a None for options included, becomes a response with success = False and
\* a message
C15_HandledInsideTry ==
    \A c \in Clients :
        (Done(c) /\ (task[c].options = NoneOptions
                     \/ \E k \in 1..Len(calls[c]) : calls[c][k].result # "ok")) =>
            /\ ~task[c].response.success
            /\ task[c].response.message # <<>>
            /\ task[c].response.processed_image = <<>>

\* C16: a response has success = TRUE only when every enabled stage was
\* called and every call returned ok, and then processed_image is what the
\* Format collaborator returned; every other response has success = FALSE, a
\* message and an empty processed_image.
C16_NoSilentDataLoss ==
    \A c \in Clients :
        Done(c) =>
            LET o == task[c].options
                r == task[c].response
                n == Len(calls[c])
            IN  IF r.success
                THEN /\ o # NoneOptions
                     /\ \A k \in 1..n : calls[c][k].result = "ok"
                     /\ n > 0
                     /\ calls[c][n].service_type = "format"
                     /\ r.processed_image = calls[c][n].out
                     /\ (Get(o, "target_width", 0) > 0 \/ Get(o, "target_height", 0) > 0)
                           => CallsOf(c, "resize") # {}
                     /\ Cardinality(CallsOf(c, "filter")) = Len(Get(o, "filters", <<>>))
                     /\ Get(o, "add_watermark", FALSE) => CallsOf(c, "watermark") # {}
                ELSE /\ r.message # <<>>
                     /\ r.processed_image = <<>>

\* a request failed at its watermark call, after a resize and a filter had
\* already changed the image: the response carries no image
C16_Witness ==
    \E c \in Clients :
        /\ Failed(c)
        /\ Len(calls[c]) = 3
        /\ calls[c][3].service_type = "watermark"
        /\ task[c].current_image # task[c].image_data
        /\ task[c].response.processed_image = <<>>

\* C18: a step that answers get_processing_status answers with the id it was
\* asked about, status "completed", progress 100 and stage "done", whatever
\* the id, and changes neither a cursor nor anything else the coordinator
\* keeps.
C18_StatusStub ==
    [][\A c \in Clients :
          (task[c].pc # "status" /\ task'[c].pc = "status") =>
              /\ task'[c].response.status = "completed"
              /\ task'[c].response.progress_percent = 100
              /\ task'[c].response.current_stage = "done"
              /\ task'[c].response.stats = NoStats
              /\ \E process_id \in StatusIds :
                    task'[c].response = StatusResponse(process_id)
              /\ UNCHANGED <<hosts, idx, selLog, calls, issued, latency>>
              /\ \A d \in Clients \ {c} : task'[d] = task[d]]_vars

\* the status of an id that was never issued was asked after one request had
\* moved a cursor: the answer is "completed"
C18_Witness ==
    \E c \in Clients :
        /\ task[c].pc = "status"
        /\ issued = 1
        /\ task[c].response.process_id = MaxRequests + 1
        /\ task[c].response.status = "completed"
        /\ \E s \in StageSet : idx[s] # 0

\* C19: no pool the coordinator was constructed with holds a host without
\* an address, and no call is dispatched to one.
C19_NoUnusablePool ==
    /\ \A s \in StageSet : \A k \in 1..Len(hosts[s]) : hosts[s][k] # EmptyHost
    /\ \A c \in Clients : \A k \in 1..Len(calls[c]) : calls[c][k].host # EmptyHost

\* the list is never empty, so the selection itself never fails
C19_SelectionNeverFails ==
    \A s \in StageSet : Len(hosts[s]) >= 1 /\ idx[s] \in 0..(Len(hosts[s]) - 1)

\* C20: the stats of every response, successful or failed, hold
\* total_time_ms and original_size_bytes, the latter the length of the image
\* the request came with; processed_size_bytes is there exactly on success,
\* and is the length of processed_image.
C20_SizesAndTotalInEveryResponse ==
    \A c \in Clients :
        Done(c) =>
            LET r == task[c].response
            IN  /\ "total_time_ms" \in DOMAIN r.stats
                /\ "original_size_bytes" \in DOMAIN r.stats
                /\ r.stats.original_size_bytes = Len(task[c].image_data)
                /\ r.success <=> "processed_size_bytes" \in DOMAIN r.stats
                /\ r.success => r.stats.processed_size_bytes = Len(r.processed_image)

\* what does hold: the three values are reported on success
C20_SizesAndTotalOnSuccess ==
    \A c \in Clients :
        Succeeded(c) =>
            LET r == task[c].response
            IN  /\ {"total_time_ms", "original_size_bytes", "processed_size_bytes"}
                      \subseteq DOMAIN r.stats
                /\ r.stats.original_size_bytes = Len(task[c].image_data)
                /\ r.stats.processed_size_bytes = Len(r.processed_image)
                /\ r.stats.total_time_ms = Ms(task[c].clock)

\* C17: in the stats of a successful response total_time_ms is at least the
\* sum of resize_time_ms, filter_time_ms, watermark_time_ms and
\* format_time_ms.
C17_TotalCoversStages ==
    \A c \in Clients :
        Succeeded(c) =>
            LET st == task[c].response.stats
            IN  st.total_time_ms >= st.resize_time_ms + st.filter_time_ms
                                    + st.watermark_time_ms + st.format_time_ms

\* a run with all four stages, each of a millisecond or more, whose calls
\* took fractions of milliseconds more than the collaborators measured
C17_Witness ==
    \E c \in Clients :
        /\ Succeeded(c)
        /\ LET st == task[c].response.stats
           IN  /\ st.resize_time_ms > 0 /\ st.filter_time_ms > 0
               /\ st.watermark_time_ms > 0 /\ st.format_time_ms > 0
               /\ st.total_time_ms > st.resize_time_ms + st.filter_time_ms
                                     + st.watermark_time_ms + st.format_time_ms
               /\ task[c].clock % TicksPerMs # 0

\* C21: the first call of a request is sent the request's image, every later
\* call is sent what the call before it returned, and the working payload
\* of the request is what its last successful call returned (the request's
\* image when none has), also after a failure.
C21_PayloadThreaded ==
    \A c \in Clients :
        LET n == Len(calls[c])
            lastOk == IF n >= 1 /\ calls[c][n].result = "ok" THEN n ELSE n - 1
        IN  /\ n >= 1 => calls[c][1].image = task[c].image_data
            /\ \A k \in 2..n : /\ calls[c][k - 1].result = "ok"
                               /\ calls[c][k].image = calls[c][k - 1].out
            /\ n >= 1 =>
                  task[c].current_image =
                      IF lastOk >= 1 THEN calls[c][lastOk].out ELSE task[c].image_data

\* resize and watermark succeeded with the filter stage skipped between
\* them, then the format call failed: the payload is still the watermarked
\* image
C21_Witness ==
    \E c \in Clients :
        /\ Failed(c)
        /\ Len(calls[c]) = 3
        /\ calls[c][1].service_type = "resize"
        /\ calls[c][2].service_type = "watermark"
        /\ calls[c][2].image = calls[c][1].out
        /\ calls[c][3].image = calls[c][2].out
        /\ task[c].current_image = calls[c][2].out
        /\ task[c].current_image # task[c].image_data

\* C22: a Resize call is made only when target_width > 0 or
\* target_height > 0, filter calls only for a non-empty filter list, a
\* Watermark call only when add_watermark is true; and a request that has
\* got past a stage its options enable has made that stage's calls: the
\* first call of a request with a positive dimension is the Resize call,
\* there is one filter call per filter before a Watermark or Format call,
\* and a Watermark call before the Format call of a request with
\* add_watermark.
C22_StageEnablePolicy ==
    \A c \in Clients :
        LET o == task[c].options
            wantsResize == Get(o, "target_width", 0) > 0 \/ Get(o, "target_height", 0) > 0
            nFilters == Len(Get(o, "filters", <<>>))
            wantsWatermark == Get(o, "add_watermark", FALSE)
        IN  /\ CallsOf(c, "resize") # {} => wantsResize
            /\ CallsOf(c, "filter") # {} => nFilters > 0
            /\ CallsOf(c, "watermark") # {} => wantsWatermark
            /\ (wantsResize /\ Len(calls[c]) >= 1) =>
                  calls[c][1].service_type = "resize"
            /\ (CallsOf(c, "watermark") \cup CallsOf(c, "format") # {}) =>
                  Cardinality(CallsOf(c, "filter")) = nFilters
            /\ (wantsWatermark /\ CallsOf(c, "format") # {}) =>
                  CallsOf(c, "watermark") # {}

\* a request with negative width and height and nothing else enabled
\* succeeded with the Format call alone
C22_Witness ==
    \E c \in Clients :
        /\ Succeeded(c)
        /\ Get(task[c].options, "target_width", 0) < 0
        /\ Get(task[c].options, "target_height", 0) < 0
        /\ Len(calls[c]) = 1
        /\ calls[c][1].service_type = "format"

\* C23: every Watermark call is made with font size 30, color "#FFFFFF" and
\* opacity 0.8, with position "bottom-right" when the request's
\* watermark_position is absent or the empty string, and with the request's
\* watermark_position otherwise.
C23_WatermarkParams ==
    \A c \in Clients : \A k \in CallsOf(c, "watermark") :
        LET p == calls[c][k].params
            asked == Get(task[c].options, "watermark_position", "")
        IN  /\ p.font_size = 30
            /\ p.color = "#FFFFFF"
            /\ p.opacity_tenths = 8
            /\ p.position = IF asked = "" THEN "bottom-right" ELSE asked

\* what does hold: the fixed parameters, the default for an absent
\* position, and every position the request does carry passed on as it is,
\* the empty string included
C23_WatermarkParamsAsSent ==
    \A c \in Clients : \A k \in CallsOf(c, "watermark") :
        LET p == calls[c][k].params
        IN  /\ p.font_size = 30
            /\ p.color = "#FFFFFF"
            /\ p.opacity_tenths = 8
            /\ p.position = IF "watermark_position" \in DOMAIN task[c].options
                            THEN task[c].options.watermark_position
                            ELSE "bottom-right"

\* C24: a successful Format call encoded with a quality within 1..100,
\* whatever output_quality the request carried, and a request with options
\* fails only where one of its collaborator calls failed: zero, negative
\* and too large values fail no request.
C24_NormalizedNeverRejected ==
    \A c \in Clients :
        /\ \A k \in CallsOf(c, "format") :
              calls[c][k].result = "ok" => calls[c][k].params.quality \in 1..100
        /\ (Failed(c) /\ task[c].options # NoneOptions) =>
              /\ Len(calls[c]) >= 1
              /\ calls[c][Len(calls[c])].result \in {"fail", "raise"}

\* a request with output_quality 150 succeeded, encoded with the fallback
\* quality
C24_Witness ==
    \E c \in Clients :
        /\ Succeeded(c)
        /\ Get(task[c].options, "output_quality", 0) > 100
        /\ calls[c][Len(calls[c])].params.target_quality > 100
        /\ calls[c][Len(calls[c])].params.quality = FormatFallbackQuality

\* C25: no step of process_image changes the request it is working on:
\* from the step that receives the request to the one that produces the
\* response, successful or failed, the options (the filter list among them)
\* and the image bytes it was called with stay what they were.
C25_RequestNotMutated ==
    [][\A c \in Clients :
          (task[c].pc \notin {"idle", "pending"}
             /\ task'[c].pc \notin {"idle", "pending"}) =>
              /\ task'[c].options = task[c].options
              /\ task'[c].image_data = task[c].image_data]_vars

\* a request with output_quality 0 succeeded: the Format call was made with
\* 90 and the options still say 0
C25_Witness ==
    \E c \in Clients :
        /\ Succeeded(c)
        /\ "output_quality" \in DOMAIN task[c].options
        /\ task[c].options.output_quality = 0
        /\ calls[c][Len(calls[c])].params.target_quality = DefaultQuality
        /\ task[c].image_data \in Originals

\* C26: at every point of a request, each entry of its host_map names the
\* host that the call with that label was sent to, a call that returned ok,
\* and that host is the one _get_next_host returned to this request for
\* that call; the host_map of the response has these entries.
C26_TraceAccurate ==
    \A c \in Clients :
        task[c].pc \notin {"idle", "pending", "status", "fault"} =>
            /\ \A label \in DOMAIN task[c].stats.host_map :
                  \E k \in 1..Len(calls[c]) :
                      /\ calls[c][k].label = label
                      /\ calls[c][k].result = "ok"
                      /\ calls[c][k].host = task[c].stats.host_map[label]
                      /\ task[c].picks[k].host = task[c].stats.host_map[label]
            /\ Succeeded(c) =>
                  \A label \in DOMAIN task[c].stats.host_map :
                      task[c].response.stats.host_map[label]
                          = task[c].stats.host_map[label]

\* the second request of a behaviour had two filters applied by the two
\* hosts of the filter pool, starting from where the first request left the
\* cursor, and its trace names the two hosts in that order
C26_Witness ==
    \E c \in Clients :
        /\ Succeeded(c)
        /\ task[c].process_id = 2
        /\ Len(hosts["filter"]) = 2
        /\ Len(selLog["filter"]) = 3
        /\ Len(calls[c]) >= 3
        /\ calls[c][2].service_type = "filter" /\ calls[c][3].service_type = "filter"
        /\ calls[c][2].host = hosts["filter"][2]
        /\ calls[c][3].host = hosts["filter"][1]
        /\ task[c].response.stats.host_map[calls[c][2].label] = hosts["filter"][2]
        /\ task[c].response.stats.host_map[calls[c][3].label] = hosts["filter"][1]

\* C27: when a request has failed at a call to the host at position j of a
\* pool of N hosts (positions from 0), the cursor of that pool stands at
\* (j + 1) mod N: the slot is used up, and the next selection on the pool,
\* which returns the host under the cursor, returns the host after it.
C27_FailedCallConsumesSlot ==
    /\ \A c \in Clients :
          (Failed(c) /\ Len(calls[c]) >= 1) =>
              LET s == calls[c][Len(calls[c])].service_type
                  j == PosInPool(s, calls[c][Len(calls[c])].host) - 1
              IN  idx[s] = (j + 1) % Len(hosts[s])
    /\ \A c \in Clients :
          task[c].pc = "advance" =>
              task[c].host = hosts[task[c].service_type][idx[task[c].service_type] + 1]

\* the call to the first of two filter hosts failed: the cursor stands on
\* the second
C27_Witness ==
    \E c \in Clients :
        /\ Failed(c)
        /\ Len(calls[c]) >= 1
        /\ calls[c][Len(calls[c])].service_type = "filter"
        /\ Len(hosts["filter"]) = 2
        /\ calls[c][Len(calls[c])].host = hosts["filter"][1]
        /\ idx["filter"] = 1

\* the cursor of a pool has moved once for each selection made on it
CursorCountsSelections ==
    \A s \in StageSet :
        LET pendingAdvance ==
                Cardinality({c \in Clients :
                                task[c].pc = "advance" /\ task[c].service_type = s})
        IN  idx[s] = (Len(selLog[s]) - pendingAdvance) % Len(hosts[s])

\* the selections on a pool are those of the calls made to it and of the
\* call about to be made: a stage a request skips or does not reach adds none
SelectionsAreDispatches ==
    \A c \in Clients : \A s \in StageSet :
        Cardinality(PicksOf(c, s)) =
            Cardinality(CallsOf(c, s))
            + (IF Selecting(c) /\ task[c].service_type = s THEN 1 ELSE 0)

\* C28: a step moves the cursor of one pool at most, the pool the request
\* taking the step has just selected on, and never changes a host list; a
\* cursor has moved exactly once per selection on its pool and a request
\* selects only for the calls it dispatches, so the cursors of the stages a
\* request skipped, or did not reach because an earlier stage failed, are
\* where they were.
C28_OnlyDispatchesMoveCursors ==
    /\ [](CursorCountsSelections /\ SelectionsAreDispatches)
    /\ [][/\ hosts' = hosts
          /\ \A s \in StageSet :
                idx'[s] # idx[s] =>
                    /\ \E c \in Clients :
                          /\ task[c].pc = "advance" /\ task[c].service_type = s
                          /\ task'[c].pc = "call"
                    /\ \A other \in StageSet \ {s} : idx'[other] = idx[other]
                    /\ selLog' = selLog]_vars

\* the first request failed at its Resize call, on a pool of two hosts: the
\* resize cursor has moved, and the cursors of the filter, watermark and
\* format stages, which the request asked for and did not reach, have not
C28_Witness ==
    \E c \in Clients :
        /\ Failed(c)
        /\ issued = 1
        /\ Len(calls[c]) = 1
        /\ calls[c][1].service_type = "resize"
        /\ Len(hosts["resize"]) = 2
        /\ idx["resize"] = 1
        /\ Get(task[c].options, "filters", <<>>) # <<>>
        /\ Get(task[c].options, "add_watermark", FALSE)
        /\ \A s \in StageSet \ {"resize"} : idx[s] = 0 /\ selLog[s] = <<>>

\* C29: every request process_image has started on is answered with a
\* response, successful or failed, after at most 3 + len(filters) calls.
C29_EveryRequestAnswered ==
    /\ [](\A c \in Clients :
            Len(calls[c]) <= 3 + Len(Get(task[c].options, "filters", <<>>)))
    /\ \A c \in Clients :
          (task[c].pc \notin {"idle", "pending", "status"}) ~> Done(c)

\* what does hold: every request process_image has started on comes to an
\* end, with a response or with a fault, after at most 3 + len(filters)
\* calls and however many other connections are waiting
C29_EveryRequestEnds ==
    /\ [](\A c \in Clients :
            Len(calls[c]) <= 3 + Len(Get(task[c].options, "filters", <<>>)))
    /\ \A c \in Clients :
          (task[c].pc \notin {"idle", "pending", "status"})
              ~> (task[c].pc \in {"done", "fault"})

\* C30: a step of one request touches the frame (payload, stats, host_map,
\* process id, response) and the calls of that request alone: whatever a
\* request does, failing included, the frame and the calls of every other
\* connection are what they were, and a call always carries the payload and
\* the id of the request that made it.
C30_RequestsIsolated ==
    /\ [](\A c \in Clients : \A k \in 1..Len(calls[c]) :
            /\ calls[c][k].process_id = task[c].process_id
            /\ \A d \in Clients \ {c} :
                  task[d].pc \notin {"idle", "pending", "status"} =>
                      calls[c][k].process_id # task[d].process_id)
    /\ [][\A c \in Clients :
            (task'[c] # task[c] \/ calls'[c] # calls[c]) =>
                \A d \in Clients \ {c} :
                    task'[d] = task[d] /\ calls'[d] = calls[d]]_vars

\* a request failed at its second call while the other connection's request
\* was waiting for the server, untouched
C30_Witness ==
    \E c \in Clients : \E d \in Clients \ {c} :
        /\ Failed(c)
        /\ Len(calls[c]) = 2
        /\ task[d].pc = "pending"
        /\ task[d].stats = NoStats /\ calls[d] = <<>>

====
